---- MODULE Spec2Model ----
(***************************************************************************)
(* A model of transformers_neuronx/module.py: the split checkpoint store   *)
(* (save_split, sanitize_file_name), the low-memory module operations      *)
(* (materialize, nullify, load_state_dict_low_memory, load_state_dict_dir) *)
(* and the greedy decoding loop (SamplingModel.greedy_search).             *)
(*                                                                         *)
(* Strings are sequences of one-character strings, so that strip, replace, *)
(* re.sub, f-string formatting, '+' and the substring test 'in' are        *)
(* computed character by character as Python computes them.                *)
(***************************************************************************)
EXTENDS Integers, Sequences, FiniteSets, TLC

(***************************************************************************)
(* Bounds of the model.                                                    *)
(***************************************************************************)
\* most characters of all the keys of a state dict handed to save_split
MaxKeyChars == 3
\* most entries of a state dict handed to save_split
MaxKeys == 2
\* most modules of a module tree
MaxModules == 3
\* most calls of materialize in a row
MaxMaterializeCalls == 2
\* longest prompt handed to greedy_search
MaxPrompt == 2
\* most tokens greedy_search is asked to generate
MaxNewTokens == 3
\* size of the vocabulary of the model greedy_search drives
VocabSize == 3

(***************************************************************************)
(* Strings.                                                                *)
(***************************************************************************)
\* A string is a sequence of one-character strings.

\* the characters state-dict keys are drawn from: a word character, a
\* space, a dot and a punctuation mark outside [-\w.]
KeyChars == {"a", " ", ".", "!"}

\* characters matched by \w under (?u): letters, digits, underscore
WordChars == {"a", "b", "w", "p", "_", "0", "1", "2", "3", "4", "5", "6", "7", "8", "9"}

\* characters str.strip() removes from both ends
Whitespace == {" ", "\t", "\n"}

RECURSIVE LStrip(_)
LStrip(s) == IF s # <<>> /\ Head(s) \in Whitespace THEN LStrip(Tail(s)) ELSE s

RECURSIVE RStrip(_)
RStrip(s) ==
  IF s # <<>> /\ s[Len(s)] \in Whitespace THEN RStrip(SubSeq(s, 1, Len(s) - 1)) ELSE s

\* name.strip()
Strip(s) == RStrip(LStrip(s))

\* s.replace(' ', '_')
ReplaceSpace(s) == [i \in 1..Len(s) |-> IF s[i] = " " THEN "_" ELSE s[i]]

\* re.sub(r'(?u)[^-\w.]', '', s)
Keep(c) == c \in WordChars \cup {"-", "."}
ReSubDelete(s) == SelectSeq(s, Keep)

\* the decimal digits of a natural number, as f'{idx}' formats it
Digit(d) == <<"0", "1", "2", "3", "4", "5", "6", "7", "8", "9">>[d + 1]
RECURSIVE Decimal(_)
Decimal(n) == IF n < 10 THEN <<Digit(n)>> ELSE Decimal(n \div 10) \o <<Digit(n % 10)>>

\* 'key_to_filename.json'
KEY_TO_FILENAME_JSON == <<"k", "e", "y", "_", "t", "o", "_", "f", "i", "l", "e", "n", "a", "m", "e", ".", "j", "s", "o", "n">>

(***************************************************************************)
(* sanitize_file_name: the sanitized name, or the ValueError it raises.    *)
(***************************************************************************)
Sanitized(name) == ReSubDelete(ReplaceSpace(Strip(name)))

SanitizeRaises(name) == Sanitized(name) \in {<<>>, <<".">>, <<".", ".">>}

sanitize_file_name(name) ==
  IF SanitizeRaises(name)
  THEN [raised |-> TRUE, value |-> <<>>]
  ELSE [raised |-> FALSE, value |-> Sanitized(name)]

\* a plausible slip: the name is written to the manifest without the index
FileNameNoIndex(idx, sanitized) == sanitized

\* f'p{idx}.{sanitize_file_name(key)}'
FileName(idx, sanitized) == <<"p">> \o Decimal(idx) \o <<".">> \o sanitized

(***************************************************************************)
(* Python dicts with insertion order: a sequence of <<key, value>> pairs   *)
(* with distinct keys.                                                     *)
(***************************************************************************)
DictKeys(d) == {d[i][1] : i \in 1..Len(d)}
DictGet(d, k) == d[CHOOSE i \in 1..Len(d) : d[i][1] = k][2]
DictSet(d, k, v) ==
  IF k \in DictKeys(d)
  THEN [i \in 1..Len(d) |-> IF d[i][1] = k THEN <<k, v>> ELSE d[i]]
  ELSE Append(d, <<k, v>>)

\* json.dump of a string: quoted, with '"' and '\' escaped by a backslash
RECURSIVE JsonEscape(_)
JsonEscape(s) ==
  IF s = <<>> THEN <<>>
  ELSE (IF Head(s) \in {"\"", "\\"} THEN <<"\\", Head(s)>> ELSE <<Head(s)>>)
       \o JsonEscape(Tail(s))
JsonString(s) == <<"\"">> \o JsonEscape(s) \o <<"\"">>

\* json.load of a quoted string
RECURSIVE JsonUnescape(_)
JsonUnescape(s) ==
  IF s = <<>> THEN <<>>
  ELSE IF Head(s) = "\\" /\ Len(s) >= 2
       THEN <<s[2]>> \o JsonUnescape(Tail(Tail(s)))
       ELSE <<Head(s)>> \o JsonUnescape(Tail(s))
JsonParseString(t) == JsonUnescape(SubSeq(t, 2, Len(t) - 1))

\* json.dump(key_to_filename, f, indent=2): the members in dict order
JsonDump(d) == [i \in 1..Len(d) |-> <<JsonString(d[i][1]), JsonString(d[i][2])>>]

\* json.load(f): the members read back into a dict, a later member
\* replacing an earlier one of the same key
RECURSIVE JsonLoad(_)
JsonLoad(text) ==
  IF text = <<>> THEN <<>>
  ELSE DictSet(JsonLoad(SubSeq(text, 1, Len(text) - 1)),
               JsonParseString(text[Len(text)][1]),
               JsonParseString(text[Len(text)][2]))

(***************************************************************************)
(* State of a save_split call.                                             *)
(***************************************************************************)
VARIABLES
  state_dict,        \* save_split's argument: <<key, tensor>> pairs in order
  s_pc,              \* position of the call
  s_idx,             \* loop index of the running loop
  key_to_filename,   \* the local dict of save_split
  dir_exists,        \* whether save_dir exists
  dir_files,         \* the files of save_dir: <<file name, content>> pairs
  dir_writes         \* the file names written by this call, in order

saveVars == <<state_dict, s_pc, s_idx, key_to_filename, dir_exists, dir_files, dir_writes>>

(***************************************************************************)
(* State of a LowMemoryModule tree and of the call running on it.          *)
(***************************************************************************)
VARIABLES
  _modules,          \* module -> its ordered dict of children: <<name, child>> pairs
  _parameters,       \* module -> the names of its direct parameters, in order
  param,             \* <<module, name>> -> the parameter object registered there
  m_pc,              \* "idle", the method running, "returned" or "raised"
  exc,               \* the exception a raising call ended with
  stack,             \* the frames of the recursive inner function, top last
  manifest,          \* the dict in key_to_filename.json of the directory
  dir_arg,           \* the state_dict_dir argument
  state_dict_dir,    \* os.path.realpath(state_dict_dir)
  given,             \* the state dict as it was when load_state_dict_low_memory was called
  disk,              \* the files of the file system: <<path, content>> pairs
  mat_idx,           \* materialize: the parameters the loop has passed
  mat_calls,         \* the calls of materialize so far
  reads,             \* the paths the running or last materialize opened, in order
  samples,           \* the tensors the running or last materialize sampled
  before,            \* the parameter objects when the running or last materialize was called
  visits,            \* nullify: module -> the calls of _nullify on it
  replaced           \* nullify: slot -> the placeholders set there

matVars == <<disk, mat_idx, mat_calls, reads, samples, before>>
nullVars == <<visits, replaced>>

modVars == <<_modules, _parameters, param, m_pc, exc, stack, manifest, dir_arg, state_dict_dir,
             given, matVars, nullVars>>

\* the save variables but state_dict, which load_state_dict_low_memory consumes
saveRest == <<s_pc, s_idx, key_to_filename, dir_exists, dir_files, dir_writes>>

(***************************************************************************)
(* State of a greedy_search call.                                          *)
(***************************************************************************)
VARIABLES
  g_pc,              \* position of the call
  stub_scores,       \* the score vector of a stub model, <<>> for any other model
  input_ids,         \* the prompt
  sequence_length,
  eos_token_id,
  position_ids,      \* the position_ids of the last forward pass
  next_token_scores, \* the scores the last forward pass returned
  tokens,            \* the generated tokens appended to the list tokens
  cur_len,           \* the loop variable
  result             \* the value returned

greedyVars == <<g_pc, stub_scores, input_ids, sequence_length, eos_token_id, position_ids,
                next_token_scores, tokens, cur_len, result>>

vars == <<saveVars, modVars, greedyVars>>

notSave == <<modVars, greedyVars>>
notMod == <<saveVars, greedyVars>>

\* the non-empty strings of at most n characters
StringsUpTo(n) == UNION {[1..k -> KeyChars] : k \in 1..n}

RECURSIVE KeySeqs(_, _)
KeySeqs(n, budget) ==
  IF n = 0 THEN {<<>>}
  ELSE {<<>>} \cup
       UNION {{<<x>> \o q : q \in {r \in KeySeqs(n - 1, budget - Len(x)) :
                                     \A i \in 1..Len(r) : r[i] # x}} :
              x \in StringsUpTo(budget)}

\* state dicts: distinct keys, the tensor of the key at position i is i
StateDicts ==
  {[i \in 1..Len(q) |-> <<q[i], i>>] : q \in KeySeqs(MaxKeys, MaxKeyChars)}

\* the variables of materialize and of nullify where they do not run
MatIdle ==
  /\ disk = <<>>
  /\ mat_idx = 0
  /\ mat_calls = 0
  /\ reads = <<>>
  /\ samples = 0
  /\ before = <<>>

NullIdle ==
  /\ visits = <<>>
  /\ replaced = <<>>

\* the module variables of a specification that runs no module method
ModIdle ==
  /\ _modules = <<>>
  /\ _parameters = <<>>
  /\ param = <<>>
  /\ m_pc = "unused"
  /\ exc = "none"
  /\ stack = <<>>
  /\ manifest = <<>>
  /\ dir_arg = <<>>
  /\ state_dict_dir = <<>>
  /\ given = <<>>
  /\ MatIdle
  /\ NullIdle

\* the variables of greedy_search where it does not run
GreedyIdle ==
  /\ g_pc = "unused"
  /\ stub_scores = <<>>
  /\ input_ids = <<>>
  /\ sequence_length = 0
  /\ eos_token_id = 0
  /\ position_ids = <<>>
  /\ next_token_scores = <<>>
  /\ tokens = <<>>
  /\ cur_len = 0
  /\ result = <<>>

\* the save variables of a specification that runs no save
SaveIdle ==
  /\ state_dict = <<>>
  /\ s_pc = "unused"
  /\ s_idx = 0
  /\ key_to_filename = <<>>
  /\ dir_exists = FALSE
  /\ dir_files = <<>>
  /\ dir_writes = <<>>

\* what an earlier save may have left in the directory
StaleFiles == <<<<FileName(0, <<"a">>), 0>>>>

SaveInit ==
  /\ state_dict \in StateDicts
  /\ s_pc = "makedirs"
  /\ s_idx = 0
  /\ key_to_filename = <<>>
  /\ dir_exists \in BOOLEAN
  /\ dir_files \in (IF dir_exists THEN {<<>>, StaleFiles} ELSE {<<>>})
  /\ dir_writes = <<>>
  /\ ModIdle
  /\ GreedyIdle

\* os.makedirs(save_dir, exist_ok=True); key_to_filename = {}
MakeDirs ==
  /\ s_pc = "makedirs"
  /\ dir_exists' = TRUE
  /\ key_to_filename' = <<>>
  /\ s_idx' = 0
  /\ s_pc' = "names"
  /\ UNCHANGED <<state_dict, dir_files, dir_writes>>
  /\ UNCHANGED notSave

\* a plausible slip: one loop that names a key and saves its tensor at once
AssignNameAndSave ==
  /\ s_pc = "names"
  /\ s_idx < Len(state_dict)
  /\ LET key == state_dict[s_idx + 1][1]
         san == sanitize_file_name(key)
     IN  IF san.raised
         THEN /\ s_pc' = "raised"
              /\ UNCHANGED <<key_to_filename, s_idx, dir_files, dir_writes>>
         ELSE /\ key_to_filename' = DictSet(key_to_filename, key, FileName(s_idx, san.value))
              /\ dir_files' = DictSet(dir_files, FileName(s_idx, san.value), state_dict[s_idx + 1][2])
              /\ dir_writes' = Append(dir_writes, FileName(s_idx, san.value))
              /\ s_idx' = s_idx + 1
              /\ UNCHANGED s_pc
  /\ UNCHANGED <<state_dict, dir_exists>>
  /\ UNCHANGED notSave

\* a plausible slip: enumerate(state_dict.keys(), 1)
AssignNameOneBased ==
  /\ s_pc = "names"
  /\ s_idx < Len(state_dict)
  /\ LET key == state_dict[s_idx + 1][1]
         san == sanitize_file_name(key)
     IN  IF san.raised
         THEN /\ s_pc' = "raised"
              /\ UNCHANGED <<key_to_filename, s_idx>>
         ELSE /\ key_to_filename' = DictSet(key_to_filename, key, FileName(s_idx + 1, san.value))
              /\ s_idx' = s_idx + 1
              /\ UNCHANGED s_pc
  /\ UNCHANGED <<state_dict, dir_exists, dir_files, dir_writes>>
  /\ UNCHANGED notSave

\* one iteration of: for idx, key in enumerate(state_dict.keys()):
\*     key_to_filename[key] = f'p{idx}.{sanitize_file_name(key)}'
AssignName ==
  /\ s_pc = "names"
  /\ s_idx < Len(state_dict)
  /\ LET key == state_dict[s_idx + 1][1]
         san == sanitize_file_name(key)
     IN  IF san.raised
         THEN /\ s_pc' = "raised"
              /\ UNCHANGED <<key_to_filename, s_idx>>
         ELSE /\ key_to_filename' = DictSet(key_to_filename, key, FileName(s_idx, san.value))
              /\ s_idx' = s_idx + 1
              /\ UNCHANGED s_pc
  /\ UNCHANGED <<state_dict, dir_exists, dir_files, dir_writes>>
  /\ UNCHANGED notSave

\* with open(os.path.join(save_dir, _KEY_TO_FILENAME_JSON), 'w') as f:
\*     json.dump(key_to_filename, f, indent=2)
DumpManifest ==
  /\ s_pc = "names"
  /\ s_idx = Len(state_dict)
  /\ dir_files' = DictSet(dir_files, KEY_TO_FILENAME_JSON, JsonDump(key_to_filename))
  /\ dir_writes' = Append(dir_writes, KEY_TO_FILENAME_JSON)
  /\ s_idx' = 0
  /\ s_pc' = "tensors"
  /\ UNCHANGED <<state_dict, key_to_filename, dir_exists>>
  /\ UNCHANGED notSave

\* one iteration of: for key, tensor in state_dict.items():
\*     torch.save(tensor, os.path.join(save_dir, key_to_filename[key]))
SaveTensor ==
  /\ s_pc = "tensors"
  /\ s_idx < Len(state_dict)
  /\ LET key == state_dict[s_idx + 1][1]
         tensor == state_dict[s_idx + 1][2]
         file == DictGet(key_to_filename, key)
     IN  /\ dir_files' = DictSet(dir_files, file, tensor)
         /\ dir_writes' = Append(dir_writes, file)
  /\ s_idx' = s_idx + 1
  /\ UNCHANGED <<state_dict, s_pc, key_to_filename, dir_exists>>
  /\ UNCHANGED notSave

\* save_split returns
SaveReturn ==
  /\ s_pc = "tensors"
  /\ s_idx = Len(state_dict)
  /\ s_pc' = "done"
  /\ UNCHANGED <<state_dict, s_idx, key_to_filename, dir_exists, dir_files, dir_writes>>
  /\ UNCHANGED notSave

SaveNext == MakeDirs \/ AssignName \/ DumpManifest \/ SaveTensor \/ SaveReturn

SaveSpec == SaveInit /\ [][SaveNext]_vars

(***************************************************************************)
(* Properties of save_split.                                               *)
(***************************************************************************)
SaveFinished == s_pc \in {"done", "raised"}

\* the manifest as a reader finds it in the directory
ManifestOnDisk == JsonLoad(DictGet(dir_files, KEY_TO_FILENAME_JSON))

\* reading key_to_filename.json and loading the file listed for each key
\* gives back the keys and tensors of the state dict
RoundTripHolds ==
  /\ KEY_TO_FILENAME_JSON \in DictKeys(dir_files)
  /\ DictKeys(ManifestOnDisk) = DictKeys(state_dict)
  /\ \A k \in DictKeys(ManifestOnDisk) :
        /\ DictGet(ManifestOnDisk, k) \in DictKeys(dir_files)
        /\ DictGet(dir_files, DictGet(ManifestOnDisk, k)) = DictGet(state_dict, k)

AllKeysSanitize == \A k \in DictKeys(state_dict) : ~SanitizeRaises(k)

\* C6 as stated: for any mapping of names to tensors, also of names made up
\* only of characters outside [-\w.], a finished save_split round-trips.
C6_RoundTripAnyNames == SaveFinished => RoundTripHolds

\* C6 amended: for any mapping of names to tensors none of whose names
\* sanitizes to '', '.' or '..', save_split does not raise and, once it has
\* returned, the manifest and the files it lists reproduce the mapping.
C6_RoundTripSanitizable ==
  AllKeysSanitize => /\ s_pc # "raised"
                     /\ (s_pc = "done" => RoundTripHolds)

\* a save that returned, of two keys that sanitize to the same name, one
\* of them with punctuation outside [-\w.]
C6_Witness ==
  /\ s_pc = "done"
  /\ Len(state_dict) = 2
  /\ state_dict[1][1] = <<"a">>
  /\ state_dict[2][1] = <<"a", "!">>
  /\ RoundTripHolds

\* C7: in the manifest of a save that returned, the key at zero-based
\* position i has the file name 'p<i>.<sanitized key>', distinct keys have
\* distinct file names, every manifest key has its file in the directory
\* holding its own tensor, and no file was written twice.
C7_IndexedDistinctFileNames ==
  s_pc = "done" =>
    /\ KEY_TO_FILENAME_JSON \in DictKeys(dir_files)
    /\ \A i \in 1..Len(state_dict) :
          /\ state_dict[i][1] \in DictKeys(ManifestOnDisk)
          /\ DictGet(ManifestOnDisk, state_dict[i][1])
               = <<"p">> \o Decimal(i - 1) \o <<".">> \o Sanitized(state_dict[i][1])
          /\ DictGet(ManifestOnDisk, state_dict[i][1]) \in DictKeys(dir_files)
          /\ DictGet(dir_files, DictGet(ManifestOnDisk, state_dict[i][1])) = state_dict[i][2]
    /\ \A i, j \in 1..Len(state_dict) :
          i # j => DictGet(ManifestOnDisk, state_dict[i][1])
                     # DictGet(ManifestOnDisk, state_dict[j][1])
    /\ \A i, j \in 1..Len(dir_writes) : i # j => dir_writes[i] # dir_writes[j]

\* a save that returned, of two distinct keys with the same sanitized name
C7_Witness ==
  /\ s_pc = "done"
  /\ Len(state_dict) = 2
  /\ Sanitized(state_dict[1][1]) = Sanitized(state_dict[2][1])

\* C8: if any key of the state dict, at any position, sanitizes to '', '.'
\* or '..', save_split never returns and never writes the manifest or a
\* tensor file; and a save that raised has written nothing.
C8_AllOrNothing ==
  /\ (~AllKeysSanitize => s_pc # "done" /\ dir_writes = <<>>)
  /\ (s_pc = "raised" => ~AllKeysSanitize /\ dir_writes = <<>>)
  /\ (SaveFinished /\ ~AllKeysSanitize => s_pc = "raised")

\* a save that raised at its second key, after naming the first
C8_Witness ==
  /\ s_pc = "raised"
  /\ s_idx = 1
  /\ ~SanitizeRaises(state_dict[1][1])
  /\ SanitizeRaises(state_dict[2][1])

(***************************************************************************)
(* Module trees.                                                           *)
(***************************************************************************)
\* the names modules and parameters are drawn from
ModuleNames == {<<"a">>, <<"w">>}

\* the model on which a method is called
Root == 1

\* the parameter names of a module, in registration order
NameOrder == <<<<"a">>, <<"w">>>>
ParamSeq(S) == LET InS(x) == x \in S IN SelectSeq(NameOrder, InS)

\* the children registered in module m of a tree of n modules, by parent
\* and edge name, in registration order; an alias registers a module a
\* second time, under another parent
ChildSeq(n, parent, ename, alias, m) ==
  LET IsChild(i) == parent[i] = m
      own == SelectSeq([i \in 1..(n - 1) |-> i + 1], IsChild)
  IN  [k \in 1..Len(own) |-> <<ename[own[k]], own[k]>>]
      \o (IF alias # <<>> /\ alias[1] = m THEN <<<<alias[2], alias[3]>>>> ELSE <<>>)

ChildNames(n, parent, ename, alias, m) ==
  LET cs == ChildSeq(n, parent, ename, alias, m) IN {cs[k][1] : k \in 1..Len(cs)}

\* a tree of n modules: every module but the root is registered in one
\* earlier module, under a name no sibling and no parameter there has; a
\* graph has, besides, one module registered a second time, under a name,
\* in an earlier module that is not its parent
WellFormed(g) ==
  /\ \A i \in 2..g.n : g.parent[i] < i
  /\ \A i, j \in 2..g.n :
       i # j /\ g.parent[i] = g.parent[j] => g.ename[i] # g.ename[j]
  /\ \A m \in 1..g.n :
       g.pnames[m] \cap ChildNames(g.n, g.parent, g.ename, g.alias, m) = {}
  /\ g.alias # <<>> =>
       /\ g.alias[1] < g.alias[3]
       /\ g.alias[3] <= g.n
       /\ g.alias[1] # g.parent[g.alias[3]]
       /\ \A i \in 2..g.n : g.parent[i] = g.alias[1] => g.ename[i] # g.alias[2]

Aliases == {<<p, x, c>> : p \in 1..MaxModules, x \in ModuleNames, c \in 1..MaxModules}

\* a parameter object: a placeholder (UninitializedParameter) or a tensor
\* with data, and the _file_path attribute if it has been set
NewParameter(lazy, data) ==
  [lazy |-> lazy, data |-> data, has_file_path |-> FALSE, _file_path |-> <<>>]

\* the module tree after construction: the parameters named "w" are lazy
\* (LowMemoryLazyLinear), the others hold their initial data
TreeOf(g) ==
  /\ _modules = [m \in 1..g.n |-> ChildSeq(g.n, g.parent, g.ename, g.alias, m)]
  /\ _parameters = [m \in 1..g.n |-> ParamSeq(g.pnames[m])]
  /\ param = [slot \in {<<m, x>> : m \in 1..g.n, x \in ModuleNames} |->
                IF slot[2] = <<"w">> THEN NewParameter(TRUE, <<"uninitialized">>)
                ELSE NewParameter(FALSE, <<"init">>)]

\* the model is a tree of at most MaxModules modules, or a graph with an
\* alias chosen among the aliases given
TreeInit(aliases) ==
  \E n \in 1..MaxModules :
    \E parent \in {f \in [2..n -> 1..n] : \A i \in 2..n : f[i] < i},
       ename \in [2..n -> ModuleNames], alias \in {<<>>} \cup aliases :
      LET free == [m \in 1..n |-> ModuleNames \ ChildNames(n, parent, ename, alias, m)]
      IN  /\ WellFormed([n |-> n, parent |-> parent, ename |-> ename,
                         pnames |-> [m \in 1..n |-> {}], alias |-> alias])
          /\ \E pnames \in [1..n -> SUBSET ModuleNames] :
                /\ \A m \in 1..n : pnames[m] \subseteq free[m]
                /\ TreeOf([n |-> n, parent |-> parent, ename |-> ename,
                           pnames |-> pnames, alias |-> alias])

Modules == DOMAIN _modules

\* the places a parameter is registered at
Slots == UNION {{<<m, _parameters[m][k]>> : k \in 1..Len(_parameters[m])} : m \in Modules}

\* prefix + ('.' if prefix else '') + name
SubmodulePrefix(prefix, name) ==
  prefix \o (IF prefix # <<>> THEN <<".">> ELSE <<>>) \o name

\* torch.nn.Module.named_modules(): the module itself under '' and its
\* descendants under their dotted paths, depth first, every module object
\* once (memo), as <<name, module>> pairs
RECURSIVE NamedModulesWalk(_, _, _), NamedModulesChildren(_, _, _, _)
NamedModulesWalk(m, prefix, memo) ==
  IF m \in memo THEN [out |-> <<>>, memo |-> memo]
  ELSE NamedModulesChildren(m, prefix, 1, [out |-> <<<<prefix, m>>>>, memo |-> memo \cup {m}])
NamedModulesChildren(m, prefix, i, acc) ==
  IF i > Len(_modules[m]) THEN acc
  ELSE LET sub == NamedModulesWalk(_modules[m][i][2],
                                   SubmodulePrefix(prefix, _modules[m][i][1]), acc.memo)
       IN  NamedModulesChildren(m, prefix, i + 1,
                                [out |-> acc.out \o sub.out, memo |-> sub.memo])

named_modules(m) == NamedModulesWalk(m, <<>>, {}).out

\* torch.nn.Module.named_parameters(): the parameters of the module and of
\* its descendants, under their dotted names, as <<name, slot>> pairs
RECURSIVE NamedParametersOf(_, _)
NamedParametersOf(nm, i) ==
  IF i > Len(nm) THEN <<>>
  ELSE [k \in 1..Len(_parameters[nm[i][2]]) |->
          <<SubmodulePrefix(nm[i][1], _parameters[nm[i][2]][k]),
            <<nm[i][2], _parameters[nm[i][2]][k]>>>>]
       \o NamedParametersOf(nm, i + 1)

named_parameters(m) == NamedParametersOf(named_modules(m), 1)

\* a plausible slip: named_parameters(recurse=False)
direct_parameters(m) ==
  [k \in 1..Len(_parameters[m]) |-> <<_parameters[m][k], <<m, _parameters[m][k]>>>>]

\* local_state = {k: v for k, v in self.named_parameters() if v is not None}
local_state(m) == named_parameters(m)

\* key in s, for strings: s has key as a substring
IsSubstring(key, s) ==
  \E i \in 0..(Len(s) - Len(key)) : SubSeq(s, i + 1, i + Len(key)) = key

\* the value bound to key_to_filename: the manifest dict, or a string
DictValue(d) == [tag |-> "dict", dict |-> d, str |-> <<>>]
StrValue(s) == [tag |-> "str", dict |-> <<>>, str |-> s]

\* key in key_to_filename
In(key, ktf) ==
  IF ktf.tag = "dict" THEN key \in DictKeys(ktf.dict) ELSE IsSubstring(key, ktf.str)

\* os.path.realpath: the directory "l" is a symbolic link to "d"
RealPath(path) == IF path = <<"l">> THEN <<"d">> ELSE path

\* os.path.join(a, b)
PathJoin(a, b) == IF b # <<>> /\ Head(b) = "/" THEN b ELSE a \o <<"/">> \o b

(***************************************************************************)
(* load_state_dict_dir.                                                    *)
(***************************************************************************)
\* a frame of the inner function load(module, key_to_filename, prefix):
\* pos is 0 before the body's first statement, then the index of the
\* next item of module.named_modules()
Frame(module, ktf, prefix) ==
  [module |-> module, key_to_filename |-> ktf, prefix |-> prefix, pos |-> 0]

Top == stack[Len(stack)]
Pop == SubSeq(stack, 1, Len(stack) - 1)
Advance == [stack EXCEPT ![Len(stack)].pos = @ + 1]

\* _load_from_state_dict_dir from the i-th item of local_state on: the
\* parameter objects afterwards, and the exception raised if any
RECURSIVE LoadFromStateDictDirLoop(_, _, _, _, _, _)
LoadFromStateDictDirLoop(items, i, ktf, dir, prefix, p) ==
  IF i > Len(items) THEN [param |-> p, exc |-> "none"]
  ELSE LET key == prefix \o items[i][1]
           slot == items[i][2]
       IN  IF In(key, ktf)
           THEN IF ktf.tag = "str"
                \* key_to_filename[key] on a str: string indices must be integers
                THEN [param |-> p, exc |-> "TypeError"]
                ELSE LoadFromStateDictDirLoop(items, i + 1, ktf, dir, prefix,
                       [p EXCEPT ![slot] =
                          [@ EXCEPT !.has_file_path = TRUE,
                                    !._file_path = PathJoin(dir, DictGet(ktf.dict, key))]])
           ELSE LoadFromStateDictDirLoop(items, i + 1, ktf, dir, prefix, p)

_load_from_state_dict_dir(m, ktf, dir, prefix) ==
  LoadFromStateDictDirLoop(local_state(m), 1, ktf, dir, prefix, param)

\* load_state_dict_dir(state_dict_dir): the manifest is read, the directory
\* resolved and load(self, key_to_filename) called
CallLoadStateDictDir ==
  /\ m_pc = "idle"
  /\ \E d \in {<<"d">>, <<"l">>} :
       /\ dir_arg' = d
       /\ state_dict_dir' = RealPath(d)
  /\ stack' = <<Frame(Root, DictValue(manifest), <<>>)>>
  /\ m_pc' = "load_state_dict_dir"
  /\ UNCHANGED <<_modules, _parameters, param, exc, manifest, given>>
  /\ UNCHANGED notMod
  /\ UNCHANGED <<matVars, nullVars>>

\* module._load_from_state_dict_dir(key_to_filename, state_dict_dir, prefix)
LoadDirBody ==
  /\ m_pc = "load_state_dict_dir"
  /\ Top.pos = 0
  /\ LET r == _load_from_state_dict_dir(Top.module, Top.key_to_filename,
                                        state_dict_dir, Top.prefix)
     IN  /\ param' = r.param
         /\ IF r.exc # "none"
            THEN /\ exc' = r.exc
                 /\ m_pc' = "raised"
                 /\ stack' = <<>>
            ELSE /\ stack' = Advance
                 /\ UNCHANGED <<exc, m_pc>>
  /\ UNCHANGED <<_modules, _parameters, manifest, dir_arg, state_dict_dir, given>>
  /\ UNCHANGED notMod
  /\ UNCHANGED <<matVars, nullVars>>

\* one iteration of: for name, child in module.named_modules():
\*     if child is module: continue
\*     if child is not None: load(child, prefix + name + '.')
LoadDirChild ==
  /\ m_pc = "load_state_dict_dir"
  /\ Top.pos >= 1
  /\ Top.pos <= Len(named_modules(Top.module))
  /\ LET item == named_modules(Top.module)[Top.pos]
     IN  IF item[2] = Top.module
         THEN stack' = Advance
         ELSE stack' = Append(Advance,
                              Frame(item[2], StrValue(Top.prefix \o item[1] \o <<".">>), <<>>))
  /\ UNCHANGED <<_modules, _parameters, param, m_pc, exc, manifest, dir_arg, state_dict_dir, given>>
  /\ UNCHANGED notMod
  /\ UNCHANGED <<matVars, nullVars>>

\* load returns; the outermost return ends load_state_dict_dir
LoadDirReturn ==
  /\ m_pc = "load_state_dict_dir"
  /\ Top.pos > Len(named_modules(Top.module))
  /\ stack' = Pop
  /\ m_pc' = IF Len(stack) = 1 THEN "returned" ELSE m_pc
  /\ UNCHANGED <<_modules, _parameters, param, exc, manifest, dir_arg, state_dict_dir, given>>
  /\ UNCHANGED notMod
  /\ UNCHANGED <<matVars, nullVars>>

\* the manifests of a tree: the qualified names of its parameters, all of
\* them, all but one or none, and possibly a key that names no parameter,
\* each with the file name save_split gives the key at its position
ManifestOf(keys) == [i \in 1..Len(keys) |-> <<keys[i], FileName(i - 1, Sanitized(keys[i]))>>]

ForeignKey == <<"x">>

QualifiedKeys == LET np == named_parameters(Root) IN [i \in 1..Len(np) |-> np[i][1]]

Manifests ==
  LET all == QualifiedKeys
      Without(k) == LET Other(x) == x # k IN SelectSeq(all, Other)
      partial == {all, <<>>} \cup {Without(all[i]) : i \in 1..Len(all)}
  IN  {ManifestOf(q) : q \in partial} \cup {ManifestOf(Append(q, ForeignKey)) : q \in partial}

LoadDirInit ==
  /\ TreeInit({})
  /\ manifest \in Manifests
  /\ m_pc = "idle"
  /\ exc = "none"
  /\ stack = <<>>
  /\ dir_arg = <<>>
  /\ state_dict_dir = <<>>
  /\ given = <<>>
  /\ MatIdle
  /\ NullIdle
  /\ SaveIdle
  /\ GreedyIdle

LoadDirNext == CallLoadStateDictDir \/ LoadDirBody \/ LoadDirChild \/ LoadDirReturn

LoadDirSpec == LoadDirInit /\ [][LoadDirNext]_vars

(***************************************************************************)
(* Properties of load_state_dict_dir.                                      *)
(***************************************************************************)
\* the dotted paths from the root to the modules: <<path, module>> pairs
RECURSIVE PathsFrom(_, _)
PathsFrom(m, prefix) ==
  {<<prefix, m>>} \cup
  UNION {PathsFrom(_modules[m][i][2], SubmodulePrefix(prefix, _modules[m][i][1])) :
           i \in 1..Len(_modules[m])}

\* the qualified names of the parameter at a slot: ancestor module names
\* joined with '.', then the parameter name
QualifiedNamesOf(slot) ==
  {SubmodulePrefix(pm[1], slot[2]) : pm \in {x \in PathsFrom(Root, <<>>) : x[2] = slot[1]}}

InManifest(slot) == \E q \in QualifiedNamesOf(slot) : q \in DictKeys(manifest)

CallEnded == m_pc \in {"returned", "raised"}

\* C2: once load_state_dict_dir has ended on a module tree, every parameter
\* whose qualified name is a key of the manifest carries as _file_path the
\* real path of the directory joined with the manifest's file name for that
\* qualified name, at any depth of the tree.
C2_ManifestKeysAnnotated ==
  m_pc \in {"returned", "raised"} =>
    \A slot \in Slots : \A q \in QualifiedNamesOf(slot) :
      q \in DictKeys(manifest) =>
        /\ param[slot].has_file_path
        /\ param[slot]._file_path = <<"d", "/">> \o DictGet(manifest, q)

\* a call through the symbolic link that returned, on a tree two levels
\* deep whose deepest parameter is in a manifest that omits another one
C2_Witness ==
  /\ m_pc = "returned"
  /\ dir_arg = <<"l">>
  /\ \E slot \in Slots :
       /\ <<"a", ".", "a", ".", "w">> \in QualifiedNamesOf(slot)
       /\ <<"a", ".", "a", ".", "w">> \in DictKeys(manifest)
       /\ param[slot].has_file_path
  /\ \E slot \in Slots : ~InManifest(slot)

\* C3: on any module tree and any manifest that omits some of the tree's
\* parameter names, load_state_dict_dir does not raise, at any step of its
\* walk over the child modules, and the parameters whose qualified name is
\* absent from the manifest carry no deferred source.
C3_CompletesAbsentUntouched ==
  /\ m_pc # "raised"
  /\ \A slot \in Slots : ~InManifest(slot) => ~param[slot].has_file_path

(***************************************************************************)
(* load_state_dict_low_memory.                                             *)
(***************************************************************************)
\* a plausible slip: input_param = state_dict[key], which consumes nothing
DictPopKeeps(d, k) == d

\* state_dict.pop(key): the dict without the key
DictPop(d, k) == LET Other(kv) == kv[1] # k IN SelectSeq(d, Other)

\* if is_lazy(param): param.materialize(input_param.shape)
\* param.copy_(input_param)
CopyInto(p, input_param) == [p EXCEPT !.lazy = FALSE, !.data = input_param]

\* _load_from_state_dict_low_memory from the i-th item of local_state on:
\* the parameter objects and the state dict afterwards
RECURSIVE LoadFromStateDictLowMemoryLoop(_, _, _, _, _)
LoadFromStateDictLowMemoryLoop(items, i, sd, prefix, p) ==
  IF i > Len(items) THEN [param |-> p, state_dict |-> sd]
  ELSE LET key == prefix \o items[i][1]
           slot == items[i][2]
       IN  IF key \in DictKeys(sd)
           THEN LoadFromStateDictLowMemoryLoop(items, i + 1, DictPop(sd, key), prefix,
                  [p EXCEPT ![slot] = CopyInto(@, DictGet(sd, key))])
           ELSE LoadFromStateDictLowMemoryLoop(items, i + 1, sd, prefix, p)

_load_from_state_dict_low_memory(m, sd, prefix) ==
  LoadFromStateDictLowMemoryLoop(local_state(m), 1, sd, prefix, param)

\* load_state_dict_low_memory(state_dict): load(self) is called
CallLoadStateDictLowMemory ==
  /\ m_pc = "idle"
  /\ given' = state_dict
  /\ stack' = <<Frame(Root, DictValue(<<>>), <<>>)>>
  /\ m_pc' = "load_state_dict_low_memory"
  /\ UNCHANGED <<_modules, _parameters, param, exc, manifest, dir_arg, state_dict_dir>>
  /\ UNCHANGED <<state_dict, saveRest, greedyVars>>
  /\ UNCHANGED <<matVars, nullVars>>

\* module._load_from_state_dict_low_memory(state_dict, prefix)
LowMemoryBody ==
  /\ m_pc = "load_state_dict_low_memory"
  /\ Top.pos = 0
  /\ LET r == _load_from_state_dict_low_memory(Top.module, state_dict, Top.prefix)
     IN  /\ param' = r.param
         /\ state_dict' = r.state_dict
  /\ stack' = Advance
  /\ UNCHANGED <<_modules, _parameters, m_pc, exc, manifest, dir_arg, state_dict_dir, given>>
  /\ UNCHANGED <<saveRest, greedyVars>>
  /\ UNCHANGED <<matVars, nullVars>>

\* one iteration of: for name, child in module.named_modules():
\*     if child is module: continue
\*     if child is not None: load(child, prefix + name + '.')
LowMemoryChild ==
  /\ m_pc = "load_state_dict_low_memory"
  /\ Top.pos >= 1
  /\ Top.pos <= Len(named_modules(Top.module))
  /\ LET item == named_modules(Top.module)[Top.pos]
     IN  IF item[2] = Top.module
         THEN stack' = Advance
         ELSE stack' = Append(Advance,
                              Frame(item[2], DictValue(<<>>), Top.prefix \o item[1] \o <<".">>))
  /\ UNCHANGED <<_modules, _parameters, param, m_pc, exc, manifest, dir_arg, state_dict_dir, given>>
  /\ UNCHANGED <<state_dict, saveRest, greedyVars>>
  /\ UNCHANGED <<matVars, nullVars>>

\* load returns; the outermost return ends load_state_dict_low_memory
LowMemoryReturn ==
  /\ m_pc = "load_state_dict_low_memory"
  /\ Top.pos > Len(named_modules(Top.module))
  /\ stack' = Pop
  /\ m_pc' = IF Len(stack) = 1 THEN "returned" ELSE m_pc
  /\ UNCHANGED <<_modules, _parameters, param, exc, manifest, dir_arg, state_dict_dir, given>>
  /\ UNCHANGED <<state_dict, saveRest, greedyVars>>
  /\ UNCHANGED <<matVars, nullVars>>

\* the tensor a checkpoint stores under a key
TensorOf(key) == <<"tensor">> \o key

\* the state dicts handed to a tree: the qualified names of its
\* parameters, all of them, all but one or none, and possibly a key that
\* names no parameter of the tree: "x", or the bare name "w" of a
\* parameter of a child
StateDictsFor ==
  LET all == QualifiedKeys
      Without(k) == LET Other(x) == x # k IN SelectSeq(all, Other)
      partial == {all, <<>>} \cup {Without(all[i]) : i \in 1..Len(all)}
      bare == IF \E i \in 1..Len(all) : all[i] = <<"w">> THEN {} ELSE {<<<<"w">>>>}
      extra == {<<>>, <<ForeignKey>>} \cup bare
  IN  {[i \in 1..Len(q) |-> <<q[i], TensorOf(q[i])>>] :
         q \in {x \o e : x \in partial, e \in extra}}

LowMemoryInit ==
  /\ TreeInit({})
  /\ state_dict \in StateDictsFor
  /\ manifest = <<>>
  /\ m_pc = "idle"
  /\ exc = "none"
  /\ stack = <<>>
  /\ dir_arg = <<>>
  /\ state_dict_dir = <<>>
  /\ given = <<>>
  /\ MatIdle
  /\ NullIdle
  /\ s_pc = "unused"
  /\ s_idx = 0
  /\ key_to_filename = <<>>
  /\ dir_exists = FALSE
  /\ dir_files = <<>>
  /\ dir_writes = <<>>
  /\ GreedyIdle

LowMemoryNext == CallLoadStateDictLowMemory \/ LowMemoryBody \/ LowMemoryChild \/ LowMemoryReturn

LowMemorySpec == LowMemoryInit /\ [][LowMemoryNext]_vars

(***************************************************************************)
(* Properties of load_state_dict_low_memory.                               *)
(***************************************************************************)
NamesAParameter(k) == \E slot \in Slots : k \in QualifiedNamesOf(slot)

\* C4: once load_state_dict_low_memory has returned on a module tree, the
\* keys removed from the mapping are exactly those equal to the qualified
\* name of a parameter; each such parameter holds the tensor stored under
\* its key; every other key is still in the mapping with its tensor; and
\* every parameter whose qualified name was no key is as it was
\* constructed, a placeholder still a placeholder.
C4_ConsumesExactlyParameterKeys ==
  m_pc = "returned" =>
    /\ DictKeys(given) \ DictKeys(state_dict) = {k \in DictKeys(given) : NamesAParameter(k)}
    /\ DictKeys(state_dict) \subseteq DictKeys(given)
    /\ \A k \in DictKeys(state_dict) : DictGet(state_dict, k) = DictGet(given, k)
    /\ \A slot \in Slots :
         IF \E q \in QualifiedNamesOf(slot) : q \in DictKeys(given)
         THEN \A q \in QualifiedNamesOf(slot) :
                q \in DictKeys(given) =>
                  /\ param[slot].data = DictGet(given, q)
                  /\ ~param[slot].lazy
         ELSE param[slot] = IF slot[2] = <<"w">>
                            THEN NewParameter(TRUE, <<"uninitialized">>)
                            ELSE NewParameter(FALSE, <<"init">>)

\* a call that returned on a tree two levels deep: the deepest parameter
\* took its tensor, a placeholder with no key stayed one, some keys were
\* removed from the mapping and some, naming no parameter, stayed in it
C4_Witness ==
  /\ m_pc = "returned"
  /\ \E slot \in Slots :
       /\ <<"a", ".", "a", ".", "w">> \in QualifiedNamesOf(slot)
       /\ param[slot].data = TensorOf(<<"a", ".", "a", ".", "w">>)
  /\ \E slot \in Slots : param[slot].lazy
  /\ DictKeys(state_dict) # {}
  /\ DictKeys(state_dict) # DictKeys(given)

(***************************************************************************)
(* materialize.                                                            *)
(***************************************************************************)
\* self.parameters(): the parameters of the tree in named_parameters order
parameters(m) == LET np == named_parameters(m) IN [i \in 1..Len(np) |-> np[i][2]]

\* param._file_path.endswith('.empty_json')
EmptyJsonSuffix == <<".", "e", "m", "p", "t", "y", "_", "j", "s", "o", "n">>
EndsWith(s, suffix) ==
  Len(s) >= Len(suffix) /\ SubSeq(s, Len(s) - Len(suffix) + 1, Len(s)) = suffix

\* the content of an .empty_json file with shape, torch_dtype and init_std,
\* and of one that json.load or the three subscripts reject
EmptySpec == <<"empty_spec">>
Malformed == <<"malformed">>

\* the values torch.randn may give the sampled tensor
Samples == {<<"sample", 1>>, <<"sample", 2>>}

\* materialize(): the loop over self.parameters() starts
CallMaterialize ==
  /\ m_pc = "returned"
  /\ mat_calls < MaxMaterializeCalls
  /\ mat_calls' = mat_calls + 1
  /\ mat_idx' = 0
  /\ reads' = <<>>
  /\ samples' = 0
  /\ before' = param
  /\ m_pc' = "materialize"
  /\ UNCHANGED <<_modules, _parameters, param, exc, stack, manifest, dir_arg, state_dict_dir,
                 given, disk, nullVars>>
  /\ UNCHANGED notMod

MatSlot == parameters(Root)[mat_idx + 1]

\* if not hasattr(param, '_file_path'): continue
MaterializeSkip ==
  /\ m_pc = "materialize"
  /\ mat_idx < Len(parameters(Root))
  /\ ~param[MatSlot].has_file_path
  /\ mat_idx' = mat_idx + 1
  /\ UNCHANGED <<_modules, _parameters, param, m_pc, exc, stack, manifest, dir_arg,
                 state_dict_dir, given, disk, mat_calls, reads, samples, before, nullVars>>
  /\ UNCHANGED notMod

\* the .empty_json branch: open and json.load the file, sample
\* init_std * randn(shape), cast it, materialize a lazy parameter and copy
MaterializeEmptyJson ==
  /\ m_pc = "materialize"
  /\ mat_idx < Len(parameters(Root))
  /\ param[MatSlot].has_file_path
  /\ EndsWith(param[MatSlot]._file_path, EmptyJsonSuffix)
  /\ LET path == param[MatSlot]._file_path
     IN  IF path \notin DictKeys(disk)
         THEN /\ exc' = "FileNotFoundError"
              /\ m_pc' = "raised"
              /\ UNCHANGED <<param, mat_idx, reads, samples>>
         ELSE /\ reads' = Append(reads, path)
              /\ IF DictGet(disk, path) # EmptySpec
                 THEN /\ exc' = "JSONDecodeError"
                      /\ m_pc' = "raised"
                      /\ UNCHANGED <<param, mat_idx, samples>>
                 ELSE /\ \E input_param \in Samples :
                           param' = [param EXCEPT ![MatSlot] = CopyInto(@, input_param)]
                      /\ samples' = samples + 1
                      /\ mat_idx' = mat_idx + 1
                      /\ UNCHANGED <<exc, m_pc>>
  /\ UNCHANGED <<_modules, _parameters, stack, manifest, dir_arg, state_dict_dir, given,
                 disk, mat_calls, before, nullVars>>
  /\ UNCHANGED notMod

\* the other branch: input_param = torch.load(param._file_path), then
\* materialize a lazy parameter and copy
MaterializeLoad ==
  /\ m_pc = "materialize"
  /\ mat_idx < Len(parameters(Root))
  /\ param[MatSlot].has_file_path
  /\ ~EndsWith(param[MatSlot]._file_path, EmptyJsonSuffix)
  /\ LET path == param[MatSlot]._file_path
     IN  IF path \notin DictKeys(disk)
         THEN /\ exc' = "FileNotFoundError"
              /\ m_pc' = "raised"
              /\ UNCHANGED <<param, mat_idx, reads>>
         ELSE /\ reads' = Append(reads, path)
              /\ param' = [param EXCEPT ![MatSlot] = CopyInto(@, DictGet(disk, path))]
              /\ mat_idx' = mat_idx + 1
              /\ UNCHANGED <<exc, m_pc>>
  /\ UNCHANGED <<_modules, _parameters, stack, manifest, dir_arg, state_dict_dir, given,
                 disk, mat_calls, samples, before, nullVars>>
  /\ UNCHANGED notMod

\* the loop is over: materialize returns
MaterializeReturn ==
  /\ m_pc = "materialize"
  /\ mat_idx = Len(parameters(Root))
  /\ m_pc' = "returned"
  /\ UNCHANGED <<_modules, _parameters, param, exc, stack, manifest, dir_arg, state_dict_dir,
                 given, matVars, nullVars>>
  /\ UNCHANGED notMod

\* the split checkpoints of a tree: a manifest of all its parameters, or
\* of all but the first, of which at most one names an .empty_json file,
\* and a directory that holds the files, but at most one, which is missing
\* or, an .empty_json file, malformed
CheckpointFileName(keys, i, e) ==
  FileName(i - 1, Sanitized(keys[i])) \o (IF i = e THEN EmptyJsonSuffix ELSE <<>>)

CheckpointManifest(keys, e) ==
  [i \in 1..Len(keys) |-> <<keys[i], CheckpointFileName(keys, i, e)>>]

CheckpointDisk(keys, e, d, kind) ==
  LET Present(i) == i # d \/ kind = "malformed"
      files == SelectSeq([i \in 1..Len(keys) |-> i], Present)
  IN  [k \in 1..Len(files) |->
         <<PathJoin(<<"d">>, CheckpointFileName(keys, files[k], e)),
           IF files[k] = e
           THEN (IF files[k] = d THEN Malformed ELSE EmptySpec)
           ELSE TensorOf(keys[files[k]])>>]

Checkpoints ==
  LET all == QualifiedKeys
      keysets == {all, IF all = <<>> THEN <<>> ELSE Tail(all)}
  IN  {[manifest |-> CheckpointManifest(q, e), disk |-> CheckpointDisk(q, e, d, kind)] :
         q \in keysets, e \in 0..Len(all), d \in 0..Len(all),
         kind \in {"missing", "malformed"}}

MaterializeInit ==
  /\ TreeInit({})
  /\ \E c \in Checkpoints :
       /\ manifest = c.manifest
       /\ disk = c.disk
  /\ m_pc = "idle"
  /\ exc = "none"
  /\ stack = <<>>
  /\ dir_arg = <<>>
  /\ state_dict_dir = <<>>
  /\ given = <<>>
  /\ mat_idx = 0
  /\ mat_calls = 0
  /\ reads = <<>>
  /\ samples = 0
  /\ before = <<>>
  /\ NullIdle
  /\ SaveIdle
  /\ GreedyIdle

MaterializeNext ==
  \/ CallLoadStateDictDir \/ LoadDirBody \/ LoadDirChild \/ LoadDirReturn
  \/ CallMaterialize \/ MaterializeSkip \/ MaterializeEmptyJson \/ MaterializeLoad
  \/ MaterializeReturn

MaterializeSpec == MaterializeInit /\ [][MaterializeNext]_vars

(***************************************************************************)
(* Properties of materialize.                                              *)
(***************************************************************************)
\* C1: a first call of materialize discards the _file_path of every
\* parameter it resolves, and a second call right after it is a no-op: it
\* reads no file, samples no tensor and changes no parameter.
C1_SecondMaterializeIsNoOp ==
  /\ (mat_calls >= 1 /\ m_pc = "returned" =>
        \A slot \in Slots : ~param[slot].has_file_path)
  /\ (mat_calls = 2 =>
        /\ reads = <<>>
        /\ samples = 0
        /\ param = before)

\* a deferred source the file system can resolve
Resolvable(slot) ==
  /\ param[slot].has_file_path
  /\ param[slot]._file_path \in DictKeys(disk)
  /\ DictGet(disk, param[slot]._file_path) # Malformed

\* the parameter holds what its deferred source describes
Materialized(slot) ==
  /\ ~param[slot].lazy
  /\ IF DictGet(disk, param[slot]._file_path) = EmptySpec
     THEN param[slot].data \in Samples
     ELSE param[slot].data = DictGet(disk, param[slot]._file_path)

\* C5: a parameter that materialize fails to resolve does not keep the call
\* from materializing the others: when a first call of materialize has
\* ended, every parameter with a resolvable deferred source is
\* materialized, whether it comes before or after the failing one.
C5_FailureConfinedToParameter ==
  mat_calls = 1 /\ m_pc \in {"returned", "raised"} =>
    \A slot \in Slots : Resolvable(slot) => Materialized(slot)

(***************************************************************************)
(* nullify.                                                                *)
(***************************************************************************)
\* hasattr(module, name), for the name of a parameter or of a child
HasAttr(m, name) ==
  \/ \E k \in 1..Len(_parameters[m]) : _parameters[m][k] = name
  \/ \E k \in 1..Len(_modules[m]) : _modules[m][k][1] = name

\* for name, param in module.named_parameters():
\*     if '.' not in name and hasattr(module, name):
\*         setattr(module, name, UninitializedParameter())
\* from the i-th item on: the parameter objects and the count of
\* placeholders set at each slot afterwards
RECURSIVE NullifyParametersLoop(_, _, _, _, _)
NullifyParametersLoop(m, items, i, p, cnt) ==
  IF i > Len(items) THEN [param |-> p, replaced |-> cnt]
  ELSE LET name == items[i][1]
       IN  IF ~IsSubstring(<<".">>, name) /\ HasAttr(m, name)
           THEN NullifyParametersLoop(m, items, i + 1,
                  [p EXCEPT ![<<m, name>>] = NewParameter(TRUE, <<"uninitialized">>)],
                  [cnt EXCEPT ![<<m, name>>] = @ + 1])
           ELSE NullifyParametersLoop(m, items, i + 1, p, cnt)

\* nullify(): _nullify(self) is called
CallNullify ==
  /\ m_pc = "idle"
  /\ stack' = <<Frame(Root, DictValue(<<>>), <<>>)>>
  /\ visits' = [m \in Modules |-> 0]
  /\ replaced' = [slot \in DOMAIN param |-> 0]
  /\ m_pc' = "nullify"
  /\ UNCHANGED <<_modules, _parameters, param, exc, manifest, dir_arg, state_dict_dir, given,
                 matVars>>
  /\ UNCHANGED notMod

\* _nullify(module) is entered and its first loop run
NullifyBody ==
  /\ m_pc = "nullify"
  /\ Top.pos = 0
  /\ LET r == NullifyParametersLoop(Top.module, named_parameters(Top.module), 1,
                                    param, replaced)
     IN  /\ param' = r.param
         /\ replaced' = r.replaced
  /\ visits' = [visits EXCEPT ![Top.module] = @ + 1]
  /\ stack' = Advance
  /\ UNCHANGED <<_modules, _parameters, m_pc, exc, manifest, dir_arg, state_dict_dir, given,
                 matVars>>
  /\ UNCHANGED notMod

\* one iteration of: for child in module.modules():
\*     if child is module: continue
\*     if child is not None: _nullify(child)
NullifyChild ==
  /\ m_pc = "nullify"
  /\ Top.pos >= 1
  /\ Top.pos <= Len(named_modules(Top.module))
  /\ LET child == named_modules(Top.module)[Top.pos][2]
     IN  IF child = Top.module
         THEN stack' = Advance
         ELSE stack' = Append(Advance, Frame(child, DictValue(<<>>), <<>>))
  /\ UNCHANGED <<_modules, _parameters, param, m_pc, exc, manifest, dir_arg, state_dict_dir,
                 given, matVars, nullVars>>
  /\ UNCHANGED notMod

\* _nullify returns; the outermost return ends nullify
NullifyReturn ==
  /\ m_pc = "nullify"
  /\ Top.pos > Len(named_modules(Top.module))
  /\ stack' = Pop
  /\ m_pc' = IF Len(stack) = 1 THEN "returned" ELSE m_pc
  /\ UNCHANGED <<_modules, _parameters, param, exc, manifest, dir_arg, state_dict_dir, given,
                 matVars, nullVars>>
  /\ UNCHANGED notMod

NullifyInit ==
  /\ TreeInit(Aliases)
  /\ manifest = <<>>
  /\ m_pc = "idle"
  /\ exc = "none"
  /\ stack = <<>>
  /\ dir_arg = <<>>
  /\ state_dict_dir = <<>>
  /\ given = <<>>
  /\ MatIdle
  /\ NullIdle
  /\ SaveIdle
  /\ GreedyIdle

NullifyNext == CallNullify \/ NullifyBody \/ NullifyChild \/ NullifyReturn

NullifySpec == NullifyInit /\ [][NullifyNext]_vars

(***************************************************************************)
(* Properties of nullify.                                                  *)
(***************************************************************************)
\* C10: on any module graph, also with a module shared by several parents
\* or nested several levels deep, nullify enters each module at most once
\* and sets a placeholder at each direct parameter of each module exactly
\* once, never a second time.
C10_EachModuleNullifiedOnce ==
  m_pc \in {"nullify", "returned"} =>
    /\ \A m \in Modules : visits[m] <= 1
    /\ \A slot \in Slots : replaced[slot] <= 1
    /\ (m_pc = "returned" => \A slot \in Slots : replaced[slot] = 1)

(***************************************************************************)
(* SamplingModel.greedy_search, on a batch of one sequence.                *)
(***************************************************************************)
\* -float('inf'): below every score a model returns
NegInf == -1

TokenIds == 0..(VocabSize - 1)

\* the score vectors a forward pass may return: every token scores 0 or 1
ScoreVectors == [TokenIds -> {0, 1}]

\* the prompts: the token ids in turn, up to the length
Prompts == {[i \in 1..n |-> (i - 1) % VocabSize] : n \in 1..MaxPrompt}

\* model(input_ids, position_ids): a stub returns its fixed scores, any
\* other model the scores it likes
Forward == IF stub_scores # <<>> THEN {stub_scores} ELSE ScoreVectors

\* next_token_scores[:, eos_token_id] = -float('inf')
SuppressEos(scores, eos) == [scores EXCEPT ![eos] = NegInf]

\* torch.argmax(scores, dim=-1): the first occurrence of the maximal score
ArgMax(scores) ==
  CHOOSE t \in DOMAIN scores :
    /\ \A u \in DOMAIN scores : scores[u] <= scores[t]
    /\ \A u \in DOMAIN scores : u < t => scores[u] < scores[t]

\* torch.arange(start, dtype=torch.int32)
Arange(n) == [i \in 1..n |-> i - 1]

\* model.reset(); _, start = input_ids.shape
\* position_ids = torch.arange(start); next_token_scores = model(input_ids, position_ids)
\* tokens = [input_ids]
GreedyStart ==
  /\ g_pc = "start"
  /\ position_ids' = Arange(Len(input_ids))
  /\ next_token_scores' \in Forward
  /\ tokens' = <<>>
  /\ cur_len' = Len(input_ids)
  /\ g_pc' = "loop"
  /\ UNCHANGED <<stub_scores, input_ids, sequence_length, eos_token_id, result>>
  /\ UNCHANGED <<saveVars, modVars>>

\* a plausible slip: the loop stops once its choice is the EOS token
GreedyIterationStopsAtEos ==
  /\ g_pc = "loop"
  /\ cur_len < sequence_length
  /\ LET max_index == ArgMax(next_token_scores)
     IN  IF max_index = eos_token_id
         THEN /\ g_pc' = "done"
              /\ result' = input_ids \o tokens
              /\ UNCHANGED <<tokens, position_ids, next_token_scores, cur_len>>
         ELSE /\ tokens' = Append(tokens, max_index)
              /\ position_ids' = <<cur_len>>
              /\ next_token_scores' \in Forward
              /\ cur_len' = cur_len + 1
              /\ UNCHANGED <<g_pc, result>>
  /\ UNCHANGED <<stub_scores, input_ids, sequence_length, eos_token_id>>
  /\ UNCHANGED <<saveVars, modVars>>

\* one iteration of: for cur_len in range(start, sequence_length):
\*     next_token_scores[:, eos_token_id] = -float('inf')
\*     max_index = torch.argmax(next_token_scores, dim=-1, keepdim=True)
\*     tokens.append(max_index)
\*     position_ids = torch.as_tensor([cur_len])
\*     next_token_scores = model(max_index, position_ids)
GreedyIteration ==
  /\ g_pc = "loop"
  /\ cur_len < sequence_length
  /\ LET max_index == ArgMax(SuppressEos(next_token_scores, eos_token_id))
     IN  tokens' = Append(tokens, max_index)
  /\ position_ids' = <<cur_len>>
  /\ next_token_scores' \in Forward
  /\ cur_len' = cur_len + 1
  /\ UNCHANGED <<g_pc, stub_scores, input_ids, sequence_length, eos_token_id, result>>
  /\ UNCHANGED <<saveVars, modVars>>

\* return torch.cat(tokens, dim=-1)
GreedyReturn ==
  /\ g_pc = "loop"
  /\ cur_len >= sequence_length
  /\ result' = input_ids \o tokens
  /\ g_pc' = "done"
  /\ UNCHANGED <<stub_scores, input_ids, sequence_length, eos_token_id, position_ids,
                 next_token_scores, tokens, cur_len>>
  /\ UNCHANGED <<saveVars, modVars>>

GreedyInit ==
  /\ g_pc = "start"
  /\ stub_scores \in {<<>>} \cup ScoreVectors
  /\ input_ids \in Prompts
  /\ sequence_length \in Len(input_ids)..(Len(input_ids) + MaxNewTokens)
  /\ eos_token_id \in TokenIds
  /\ position_ids = <<>>
  /\ next_token_scores = <<>>
  /\ tokens = <<>>
  /\ cur_len = 0
  /\ result = <<>>
  /\ SaveIdle
  /\ ModIdle

GreedyNext == GreedyStart \/ GreedyIteration \/ GreedyReturn

\* the loop runs on: nothing but greedy_search itself keeps it from its
\* next statement
GreedySpec == GreedyInit /\ [][GreedyNext]_vars /\ WF_vars(GreedyNext)

(***************************************************************************)
(* Properties of greedy_search.                                            *)
(***************************************************************************)
\* t is the lowest token id among those of maximal score, the EOS entry
\* counted as below every score
LowestMaximizerBesidesEos(t, scores, eos) ==
  LET Score(u) == IF u = eos THEN NegInf ELSE scores[u]
  IN  /\ \A u \in TokenIds : Score(u) <= Score(t)
      /\ \A u \in TokenIds : u < t => Score(u) < Score(t)

\* the scores have a single maximum, at k, which is not EOS
SingleMaximumAt(k, scores, eos) ==
  /\ k # eos
  /\ \A u \in TokenIds \ {k} : scores[u] < scores[k]

GreedyShape ==
  /\ g_pc = "loop" => Len(input_ids) + Len(tokens) = cur_len /\ cur_len <= sequence_length
  /\ g_pc = "done" =>
       /\ Len(result) = sequence_length
       /\ SubSeq(result, 1, Len(input_ids)) = input_ids
       /\ SubSeq(result, Len(input_ids) + 1, Len(result)) = tokens
       /\ Len(tokens) = sequence_length - Len(input_ids)
       /\ stub_scores # <<>> =>
            \A k \in TokenIds :
              SingleMaximumAt(k, stub_scores, eos_token_id) =>
                \A i \in (Len(input_ids) + 1)..Len(result) : result[i] = k

\* C9: for a prompt of length n and sequence_length L >= n, greedy_search
\* terminates and returns the prompt followed by exactly L - n generated
\* tokens; each token it appends is the lowest-id maximizer of the scores
\* the last forward pass returned, the EOS entry suppressed; with a stub
\* model whose fixed scores have a single maximum at a non-EOS index k the
\* generated tokens are all k.
C9_GreedyFixedLength ==
  /\ []GreedyShape
  /\ [][Len(tokens') = Len(tokens) + 1 =>
          /\ SubSeq(tokens', 1, Len(tokens)) = tokens
          /\ LowestMaximizerBesidesEos(tokens'[Len(tokens')], next_token_scores, eos_token_id)]_vars
  /\ <>(g_pc = "done")

\* a stub model with a single maximum at token 1, EOS 2, a prompt of two
\* tokens and three tokens to generate: the prompt followed by 1, 1, 1
C9_Witness ==
  /\ g_pc = "done"
  /\ stub_scores = (0 :> 0 @@ 1 :> 1 @@ 2 :> 0)
  /\ eos_token_id = 2
  /\ input_ids = <<0, 1>>
  /\ result = <<0, 1, 1, 1, 1>>

====
